---- MODULE Spec2Model ----
(***************************************************************************)
(* A model of atomic-tools:                                                *)
(*   - atomic_tools/calculator_tool/calculator_tool.py: CalculatorTool.run *)
(*     hands the request's expression to SymPy's sympify, forces the       *)
(*     parsed form with evalf and returns str of the value;                *)
(*   - docs/generate_docs.py: generate_rst_files walks atomic_tools and    *)
(*     writes tools/index.rst and one page per tool.                       *)
(* Text is a sequence of one-character strings, so that stripping,         *)
(* tokenising and printing are computed and not assumed.                   *)
(***************************************************************************)
EXTENDS Integers, Sequences, FiniteSets, TLC

\* ------------------------------------------------------------------ bounds

\* Longest expression text drawn in SpecEval.
MaxLen == 5
\* Request objects, tool instances and run calls of the stateful Spec.
MaxReq == 2
MaxTools == 2
MaxCalls == 3
\* Definitions ast.walk yields for a tool's main file; runs of the generator.
MaxDefs == 2
MaxRuns == 2

\* ------------------------------------------------------------------ state

VARIABLES
  requests,   \* the CalculatorToolInputSchema objects, by id
  tools,      \* the CalculatorTool instances, by id
  configs,    \* the CalculatorToolConfig objects; 0 is __init__'s default
  calls,      \* every run call so far: tool, expression, steps, outcome
  tree,       \* the atomic_tools directory the generator reads
  files,      \* the files under docs/source/tools
  runs        \* completed runs of generate_rst_files

calcVars == <<requests, tools, configs, calls>>

docVars == <<tree, files, runs>>

vars == <<requests, tools, configs, calls, tree, files, runs>>

\* ------------------------------------------------------------------ text

Alphabet == {"0", "2", "+", "-", "*", "/", " "}

Digits == <<"0", "1", "2", "3", "4", "5", "6", "7", "8", "9">>

DigitChars == {Digits[i] : i \in 1..10}

IsDigit(c) == c \in DigitChars

DigitOf(c) == CHOOSE d \in 0..9 : Digits[d + 1] = c

RECURSIVE TextsOfLen(_)
TextsOfLen(n) ==
  IF n = 0 THEN {<<>>}
  ELSE {Append(s, c) : s \in TextsOfLen(n - 1), c \in Alphabet}

RECURSIVE LStrip(_)
LStrip(s) == IF s # <<>> /\ Head(s) = " " THEN LStrip(Tail(s)) ELSE s

RECURSIVE RStrip(_)
RStrip(s) ==
  IF s # <<>> /\ s[Len(s)] = " " THEN RStrip(SubSeq(s, 1, Len(s) - 1)) ELSE s

\* str.strip()
Strip(s) == RStrip(LStrip(s))

\* Decimal digits of a natural number, most significant first.
RECURSIVE NatStr(_)
NatStr(n) ==
  IF n < 10 THEN <<Digits[n + 1]>>
  ELSE Append(NatStr(n \div 10), Digits[(n % 10) + 1])

IntStr(n) == IF n < 0 THEN <<"-">> \o NatStr(-n) ELSE NatStr(n)

\* ------------------------------------------------- the delegate (SymPy)
\* The values sympify yields on the arithmetic fragment: an exact rational
\* (Integer, Rational), ComplexInfinity (zoo) or NaN; evalf adds Float.

RECURSIVE Gcd(_, _)
Gcd(a, b) == IF b = 0 THEN a ELSE Gcd(b, a % b)

Abs(x) == IF x < 0 THEN -x ELSE x

Zoo == [k |-> "zoo", n |-> 0, d |-> 0]

NaN == [k |-> "nan", n |-> 0, d |-> 0]

\* Rational(n, d) in lowest terms with a positive denominator; Rational(n, 0)
\* is zoo for n # 0 and nan for n = 0.
Rat(n, d) ==
  IF d = 0 THEN (IF n = 0 THEN NaN ELSE Zoo)
  ELSE LET g == Gcd(Abs(n), Abs(d))
           sg == IF d < 0 THEN -1 ELSE 1
       IN [k |-> "rat", n |-> sg * (n \div g), d |-> sg * (d \div g)]

IsZero(a) == a.k = "rat" /\ a.n = 0

NumNeg(a) == IF a.k = "rat" THEN Rat(-a.n, a.d) ELSE a

NumAdd(a, b) ==
  IF a.k = "nan" \/ b.k = "nan" THEN NaN
  ELSE IF a.k = "zoo" /\ b.k = "zoo" THEN NaN
  ELSE IF a.k = "zoo" \/ b.k = "zoo" THEN Zoo
  ELSE Rat(a.n * b.d + b.n * a.d, a.d * b.d)

NumSub(a, b) == NumAdd(a, NumNeg(b))

NumMul(a, b) ==
  IF a.k = "nan" \/ b.k = "nan" THEN NaN
  ELSE IF a.k = "zoo" \/ b.k = "zoo"
       THEN (IF IsZero(a) \/ IsZero(b) THEN NaN ELSE Zoo)
  ELSE Rat(a.n * b.n, a.d * b.d)

\* b ** -1: 1/0 is zoo, 1/zoo is 0.
NumInv(b) ==
  IF b.k = "nan" THEN NaN
  ELSE IF b.k = "zoo" THEN Rat(0, 1)
  ELSE Rat(b.d, b.n)

NumDiv(a, b) == NumMul(a, NumInv(b))

\* Python's tokenizer on the stripped text: a NUMBER is a run of zeros or a
\* run of digits that starts with a non-zero digit.
RECURSIVE NumberEnd(_, _, _)
NumberEnd(s, i, zeros) ==
  IF i < Len(s) /\ IsDigit(s[i + 1]) /\ (zeros => s[i + 1] = "0")
  THEN NumberEnd(s, i + 1, zeros)
  ELSE i

RECURSIVE NatVal(_)
NatVal(s) ==
  IF s = <<>> THEN 0
  ELSE 10 * NatVal(SubSeq(s, 1, Len(s) - 1)) + DigitOf(s[Len(s)])

OpChars == {"+", "-", "*", "/"}

RECURSIVE Tokenize(_, _)
Tokenize(s, i) ==
  IF i > Len(s) THEN <<>>
  ELSE IF s[i] = " " THEN Tokenize(s, i + 1)
  ELSE IF IsDigit(s[i])
       THEN LET j == NumberEnd(s, i, s[i] = "0")
            IN <<[t |-> "num", op |-> "", num |-> NatVal(SubSeq(s, i, j))]>>
               \o Tokenize(s, j + 1)
  ELSE IF s[i] \in OpChars
       THEN <<[t |-> "op", op |-> s[i], num |-> 0]>> \o Tokenize(s, i + 1)
  ELSE <<[t |-> "bad", op |-> s[i], num |-> 0]>> \o Tokenize(s, i + 1)

\* The two-character operators ** and // are outside the modelled fragment
\* of the delegate's grammar; texts holding them are not drawn.
InFragment(s) ==
  \A i \in 1..(Len(s) - 1) : ~(s[i] = s[i + 1] /\ s[i] \in {"*", "/"})

\* Python's expression grammar on the tokens, evaluated as eval does with
\* every NUMBER wrapped in Integer(): factor, term, arith_expr.
ParseFail == [ok |-> FALSE, val |-> NaN, next |-> 0]

IsOp(toks, i, ops) == i <= Len(toks) /\ toks[i].t = "op" /\ toks[i].op \in ops

\* A unary sign applied to the factor that follows it.
Signed(op, f) ==
  IF ~f.ok THEN ParseFail
  ELSE IF op = "-" THEN [f EXCEPT !.val = NumNeg(f.val)]
  ELSE f

RECURSIVE ParseFactor(_, _)
ParseFactor(toks, i) ==
  IF i > Len(toks) THEN ParseFail
  ELSE IF toks[i].t = "num"
       THEN [ok |-> TRUE, val |-> Rat(toks[i].num, 1), next |-> i + 1]
  ELSE IF IsOp(toks, i, {"+", "-"})
       THEN Signed(toks[i].op, ParseFactor(toks, i + 1))
  ELSE ParseFail

BinOp(op, a, b) ==
  IF op = "*" THEN NumMul(a, b)
  ELSE IF op = "/" THEN NumDiv(a, b)
  ELSE IF op = "+" THEN NumAdd(a, b)
  ELSE NumSub(a, b)

RECURSIVE ParseTermRest(_, _)
\* acc is the product so far and the position after it; f the next factor.
TermStep(toks, op, acc, f) ==
  IF ~f.ok THEN ParseFail
  ELSE ParseTermRest(toks, [f EXCEPT !.val = BinOp(op, acc.val, f.val)])

ParseTermRest(toks, acc) ==
  IF acc.ok /\ IsOp(toks, acc.next, {"*", "/"})
  THEN TermStep(toks, toks[acc.next].op, acc, ParseFactor(toks, acc.next + 1))
  ELSE acc

ParseTerm(toks, i) == ParseTermRest(toks, ParseFactor(toks, i))

RECURSIVE ParseExprRest(_, _)
ExprStep(toks, op, acc, f) ==
  IF ~f.ok THEN ParseFail
  ELSE ParseExprRest(toks, [f EXCEPT !.val = BinOp(op, acc.val, f.val)])

ParseExprRest(toks, acc) ==
  IF acc.ok /\ IsOp(toks, acc.next, {"+", "-"})
  THEN ExprStep(toks, toks[acc.next].op, acc, ParseTerm(toks, acc.next + 1))
  ELSE acc

\* The whole token sequence must be one expression.
Whole(toks, r) == IF r.ok /\ r.next = Len(toks) + 1 THEN r ELSE ParseFail

ParseExpr(toks) == Whole(toks, ParseExprRest(toks, ParseTerm(toks, 1)))

SympifyError(a) == [type |-> "SympifyError", text |-> a]

\* sympify(a) for a str: parse_expr tokenises a.strip() and evals it; a
\* TokenError or SyntaxError is raised as SympifyError('could not parse', a).
Sympified(a, r) ==
  IF r.ok THEN [ok |-> TRUE, val |-> r.val, exc |-> SympifyError(<<>>)]
  ELSE [ok |-> FALSE, val |-> NaN, exc |-> SympifyError(a)]

sympify(a) == Sympified(a, ParseExpr(Tokenize(Strip(a), 1)))

\* x.evalf(): a non-zero rational becomes a Float of 15 significant digits
\* (held exactly here, rounded when printed); zero stays the Integer 0, and
\* zoo and nan evaluate to themselves.  evalf does not raise on these.
evalf(x) ==
  IF x.k = "rat" /\ x.n # 0 THEN [x EXCEPT !.k = "float"] ELSE x

\* The significant digits printed for a Float (dps).
FloatDigits == 15

\* The first m digits of r/d after the point (0 <= r < d).
RECURSIVE FracDigits(_, _, _)
FracDigits(r, d, m) ==
  IF m = 0 THEN <<>>
  ELSE <<(10 * r) \div d>> \o FracDigits((10 * r) % d, d, m - 1)

RECURSIVE NatDigits(_)
NatDigits(n) ==
  IF n < 10 THEN <<n>> ELSE Append(NatDigits(n \div 10), n % 10)

\* Leading zero digits of a digit sequence.
RECURSIVE LeadZeros(_)
LeadZeros(ds) ==
  IF ds # <<>> /\ Head(ds) = 0 THEN 1 + LeadZeros(Tail(ds)) ELSE 0

\* A digit sequence plus one in the last place (the carry may add a digit).
RECURSIVE Incr(_)
Incr(ds) ==
  IF ds = <<>> THEN <<1>>
  ELSE IF ds[Len(ds)] < 9
       THEN [ds EXCEPT ![Len(ds)] = ds[Len(ds)] + 1]
  ELSE Append(Incr(SubSeq(ds, 1, Len(ds) - 1)), 0)

RECURSIVE DigitText(_)
DigitText(ds) ==
  IF ds = <<>> THEN <<>> ELSE <<Digits[Head(ds) + 1]>> \o DigitText(Tail(ds))

\* The digits ds, nf of them after the point, as text.
Fixed(ds, nf) ==
  DigitText(SubSeq(ds, 1, Len(ds) - nf)) \o <<".">>
  \o DigitText(SubSeq(ds, Len(ds) - nf + 1, Len(ds)))

\* ds holds one digit more than is printed: round on it (a tie upwards).
Rounded(ds) ==
  IF ds[Len(ds)] >= 5 THEN Incr(SubSeq(ds, 1, Len(ds) - 1))
  ELSE SubSeq(ds, 1, Len(ds) - 1)

\* nf digits after the point of a/d, rounded.
FixedStr(a, d, nf) ==
  Fixed(Rounded(NatDigits(a \div d) \o FracDigits(a % d, d, nf + 1)), nf)

\* The digits after the point that make FloatDigits significant ones: after
\* the integer part, or after the fraction's leading zeros.
FracLen(a, d) ==
  IF a \div d > 0 THEN FloatDigits - Len(NatDigits(a \div d))
  ELSE LeadZeros(FracDigits(a % d, d, FloatDigits)) + FloatDigits

\* str(Float): fixed notation with FloatDigits significant digits.
FloatStr(n, d) ==
  (IF n < 0 THEN <<"-">> ELSE <<>>) \o FixedStr(Abs(n), d, FracLen(Abs(n), d))

\* str(x) of a SymPy number.
SymStr(x) ==
  IF x.k = "zoo" THEN <<"z", "o", "o">>
  ELSE IF x.k = "nan" THEN <<"n", "a", "n">>
  ELSE IF x.k = "float" THEN FloatStr(x.n, x.d)
  ELSE IF x.d = 1 THEN IntStr(x.n)
  ELSE IntStr(x.n) \o <<"/">> \o NatStr(x.d)

\* ------------------------------------------------------- calculator tool

ReqIds == 1..MaxReq

ToolIds == 1..MaxTools

CfgIds == 0..MaxTools

NoText == <<>>

NoExc == [type |-> "none", text |-> NoText]

\* CalculatorToolInputSchema(expression=e): the field is a required str with
\* no further constraint, so every str validates and is stored as given.
CalculatorToolInputSchema(e) == [live |-> TRUE, expression |-> e]

\* CalculatorToolOutputSchema(result=s)
CalculatorToolOutputSchema(s) == [result |-> s]

\* CalculatorToolConfig(): no field of its own; title is BaseToolConfig's.
CalculatorToolConfig(title) == [live |-> TRUE, title |-> title]

NoRequest == [live |-> FALSE, expression |-> NoText]

NoTool == [live |-> FALSE, config |-> 0]

NoConfig == [live |-> FALSE, title |-> "None"]

Ev(op, in, out) == [op |-> op, in |-> in, out |-> out]

Returned(out) == [kind |-> "returned", result |-> out.result, exc |-> NoExc]

Raised(exc) == [kind |-> "raised", result |-> NoText, exc |-> exc]

\* Line 143: the output object is built from str(result).
RunReturn(self, params, text, parsed, result, printed) ==
  [events |-> <<Ev("sympify", text, parsed.val),
                Ev("evalf", parsed.val, result),
                Ev("str", result, printed),
                Ev("output", printed, CalculatorToolOutputSchema(printed))>>,
   outcome |-> Returned(CalculatorToolOutputSchema(printed)),
   params |-> params,
   config |-> configs[self.config]]

\* Line 142: result = parsed_expr.evalf()
RunEvalf(self, params, text, parsed, result) ==
  RunReturn(self, params, text, parsed, result, SymStr(result))

\* Line 141: an exception of sympify leaves run as it is; nothing catches it.
RunParsed(self, params, text, parsed) ==
  IF ~parsed.ok
  THEN [events |-> <<Ev("sympify", text, parsed.exc)>>,
        outcome |-> Raised(parsed.exc),
        params |-> params,
        config |-> configs[self.config]]
  ELSE RunEvalf(self, params, text, parsed, evalf(parsed.val))

\* str(params.expression): str() of a str is that str.
RunText(self, params, text) == RunParsed(self, params, text, sympify(text))

\* Variants of run, each differing from it by one plausible slip.

\* A parse failure caught and turned into a result string.
run_CatchesParseError(self, params) ==
  IF sympify(params.expression).ok
  THEN RunText(self, params, params.expression)
  ELSE RunReturn(self, params, params.expression, [val |-> NaN], NaN,
                 SymStr(NaN))

\* An undefined value (zoo, nan) raised as an EvaluationError.
run_RaisesOnUndefined(self, params) ==
  IF sympify(params.expression).ok
     /\ evalf(sympify(params.expression).val).k \in {"zoo", "nan"}
  THEN [events |-> <<Ev("sympify", params.expression,
                        sympify(params.expression).val)>>,
        outcome |-> Raised([type |-> "EvaluationError",
                            text |-> params.expression]),
        params |-> params,
        config |-> configs[self.config]]
  ELSE RunText(self, params, params.expression)

\* A failed parse falls back on the last result returned (an "ans" memory).
LastReturned(h) ==
  IF \E i \in 1..Len(h) : h[i].outcome.kind = "returned"
  THEN h[CHOOSE i \in 1..Len(h) :
           /\ h[i].outcome.kind = "returned"
           /\ \A j \in (i + 1)..Len(h) : h[j].outcome.kind # "returned"]
  ELSE [outcome |-> Raised(NoExc), events |-> <<>>]

run_FallsBackOnLast(self, params) ==
  IF ~sympify(params.expression).ok
     /\ LastReturned(calls).outcome.kind = "returned"
  THEN [events |-> LastReturned(calls).events,
        outcome |-> LastReturned(calls).outcome,
        params |-> params,
        config |-> configs[self.config]]
  ELSE RunText(self, params, params.expression)

\* The expression normalised in place on the request object.
Normalised(res) ==
  [res EXCEPT !.params = [res.params EXCEPT !.expression = Strip(@)]]

run_NormalisesInPlace(self, params) ==
  Normalised(RunText(self, params, params.expression))

\* The expression stripped before it is handed to the delegate.
run_StripsFirst(self, params) == RunText(self, params, Strip(params.expression))

\* The value cut to an integer before it is printed: str(int(result)).
IntPart(x) ==
  IF x.k = "float"
  THEN Rat((IF x.n < 0 THEN -1 ELSE 1) * (Abs(x.n) \div x.d), 1)
  ELSE x

RunInt(self, params, text, parsed, result) ==
  RunReturn(self, params, text, parsed, result, SymStr(IntPart(result)))

RunParsedInt(self, params, text, parsed) ==
  IF ~parsed.ok THEN RunParsed(self, params, text, parsed)
  ELSE RunInt(self, params, text, parsed, evalf(parsed.val))

run_PrintsInteger(self, params) ==
  RunParsedInt(self, params, params.expression, sympify(params.expression))

\* The parsed form printed, evalf left out: str(parsed_expr).
RunParsedOnly(self, params, text, parsed) ==
  IF ~parsed.ok THEN RunParsed(self, params, text, parsed)
  ELSE [events |-> <<Ev("sympify", text, parsed.val),
                     Ev("str", parsed.val, SymStr(parsed.val)),
                     Ev("output", SymStr(parsed.val),
                        CalculatorToolOutputSchema(SymStr(parsed.val)))>>,
        outcome |-> Returned(CalculatorToolOutputSchema(SymStr(parsed.val))),
        params |-> params,
        config |-> configs[self.config]]

run_PrintsParsed(self, params) ==
  RunParsedOnly(self, params, params.expression, sympify(params.expression))

\* CalculatorTool.run(self, params): the steps it takes, its outcome, and
\* the request and the tool's config as it leaves them.
run(self, params) == RunText(self, params, params.expression)

\* The expressions of the stateful specification: one the delegate rejects
\* ("2 +") and one it accepts (" 2").
SampleExprs == {<<"2", " ", "+">>, <<" ", "2">>}

TextsUpTo(m) == {s \in UNION {TextsOfLen(n) : n \in 0..m} : InFragment(s)}

InitCalc ==
  /\ requests = [r \in ReqIds |-> NoRequest]
  /\ tools = [t \in ToolIds |-> NoTool]
  /\ configs = [c \in CfgIds |-> IF c = 0 THEN CalculatorToolConfig("None")
                                 ELSE NoConfig]
  /\ calls = <<>>

IdleDocs ==
  /\ tree = <<>>
  /\ files = <<>>
  /\ runs = 0

\* A caller builds a request object.
NewRequest(r, e) ==
  /\ ~requests[r].live
  /\ \A q \in ReqIds : q < r => requests[q].live
  /\ requests' = [requests EXCEPT ![r] = CalculatorToolInputSchema(e)]
  /\ UNCHANGED <<tools, configs, calls>>
  /\ UNCHANGED docVars

\* CalculatorTool(): config is __init__'s default, one object for all.
NewToolDefault(t) ==
  /\ ~tools[t].live
  /\ \A u \in ToolIds : u < t => tools[u].live
  /\ tools' = [tools EXCEPT ![t] = [live |-> TRUE, config |-> 0]]
  /\ UNCHANGED <<requests, configs, calls>>
  /\ UNCHANGED docVars

\* CalculatorTool(config=CalculatorToolConfig(title=...)).
NewToolConfig(t) ==
  /\ ~tools[t].live
  /\ \A u \in ToolIds : u < t => tools[u].live
  /\ configs' = [configs EXCEPT ![t] = CalculatorToolConfig("Custom")]
  /\ tools' = [tools EXCEPT ![t] = [live |-> TRUE, config |-> t]]
  /\ UNCHANGED <<requests, calls>>
  /\ UNCHANGED docVars

\* The state after a run call that went as res says.
AfterRun(t, r, e, res) ==
  /\ calls' = Append(calls, [tool |-> t, expr |-> e,
                             events |-> res.events, outcome |-> res.outcome])
  /\ requests' = [requests EXCEPT ![r] = res.params]
  /\ configs' = [configs EXCEPT ![tools[t].config] = res.config]

\* tool.run(request)
Run(t, r) ==
  /\ tools[t].live
  /\ requests[r].live
  /\ Len(calls) < MaxCalls
  /\ AfterRun(t, r, requests[r].expression, run(tools[t], requests[r]))
  /\ UNCHANGED tools
  /\ UNCHANGED docVars

\* The __main__ block's loop body on one example (one per behaviour):
\* calculator.run(CalculatorToolInputSchema(expression=expr)).
Example(e) ==
  /\ calls = <<>>
  /\ AfterRun(1, 1, e, run(tools[1], CalculatorToolInputSchema(e)))
  /\ UNCHANGED tools
  /\ UNCHANGED docVars

Init == InitCalc /\ IdleDocs

Next ==
  \/ \E r \in ReqIds, e \in SampleExprs : NewRequest(r, e)
  \/ \E t \in ToolIds : NewToolDefault(t)
  \/ \E t \in ToolIds : NewToolConfig(t)
  \/ \E t \in ToolIds, r \in ReqIds : Run(t, r)

Spec == Init /\ [][Next]_vars

\* The __main__ block: calculator = CalculatorTool(), then the examples.
InitEval ==
  /\ requests = [r \in ReqIds |-> NoRequest]
  /\ tools = [t \in ToolIds |-> IF t = 1 THEN [live |-> TRUE, config |-> 0]
                                ELSE NoTool]
  /\ configs = [c \in CfgIds |-> IF c = 0 THEN CalculatorToolConfig("None")
                                 ELSE NoConfig]
  /\ calls = <<>>
  /\ IdleDocs

NextEval == calls = <<>> /\ \E e \in TextsUpTo(MaxLen) : Example(e)

SpecEval == InitEval /\ [][NextEval]_vars

\* ------------------------------------------------ claims: calculator tool

CallIds == 1..Len(calls)

EventOps(c) == [i \in 1..Len(c.events) |-> c.events[i].op]

HasEvent(c, op) == \E i \in 1..Len(c.events) : c.events[i].op = op

ParseRejects(e) == ~sympify(e).ok

\* The parse succeeds and the numeric evaluation has no defined value.
Undefined(e) == sympify(e).ok /\ evalf(sympify(e).val).k \in {"zoo", "nan"}

\* C1: a request whose expression is the empty string fails with a
\* validation error (neither a parse nor an evaluation error), and the
\* delegate parser is never invoked with the empty string.
C1_EmptyFailsValidationBeforeDelegation ==
  \A i \in CallIds :
    calls[i].expr = <<>> =>
      /\ calls[i].outcome.kind = "raised"
      /\ calls[i].outcome.exc.type = "ValidationError"
      /\ ~HasEvent(calls[i], "sympify")

\* C2: for an expression the delegate parser rejects, run raises the
\* delegate's own exception, returns no output object and never calls evalf.
C2_ParseErrorSurfacedUnchanged ==
  \A i \in CallIds :
    ParseRejects(calls[i].expr) =>
      /\ calls[i].outcome = Raised(sympify(calls[i].expr).exc)
      /\ calls[i].outcome.exc.type = "SympifyError"
      /\ ~HasEvent(calls[i], "evalf")
      /\ ~HasEvent(calls[i], "output")

C2_Witness ==
  \E i \in CallIds :
    /\ calls[i].expr = <<"2", " ", "+">>
    /\ calls[i].outcome.kind = "raised"

C4_SameExpressionSameOutcome ==
  \A i, j \in CallIds :
    calls[i].expr = calls[j].expr => calls[i].outcome = calls[j].outcome

\* The same expression run twice, on two instances, with a successful run
\* of another expression in between.
C4_Witness ==
  /\ Len(calls) = 3
  /\ calls[1].expr = calls[3].expr
  /\ calls[1].tool # calls[3].tool
  /\ calls[2].expr # calls[1].expr
  /\ calls[2].outcome.kind = "returned"
  /\ calls[1].outcome.kind = "raised"

\* C5: a run call, successful or failing, leaves every request object, every
\* config (the shared default one included) and every tool as it was.
C5_RunHasNoSideEffects ==
  [][Len(calls') > Len(calls) =>
       /\ requests' = requests
       /\ configs' = configs
       /\ tools' = tools]_vars

\* A successful and a failing run have happened, one of them on a tool that
\* shares the default config with another tool.
C5_Witness ==
  /\ \E i \in CallIds : calls[i].outcome.kind = "returned"
  /\ \E i \in CallIds : calls[i].outcome.kind = "raised"
  /\ \E t, u \in ToolIds :
       /\ t # u
       /\ tools[t].live /\ tools[u].live
       /\ tools[t].config = 0 /\ tools[u].config = 0
       /\ \E i \in CallIds : calls[i].tool = t
  /\ \E r \in ReqIds : requests[r].live /\ requests[r].expression = <<" ", "2">>

\* C6: the text handed to the delegate parser is the request's expression,
\* character for character, and every request is handed on: nothing is
\* trimmed, rewritten or rejected locally.
C6_DelegateGetsExpressionVerbatim ==
  \A i \in CallIds :
    /\ Len(calls[i].events) >= 1
    /\ calls[i].events[1].op = "sympify"
    /\ calls[i].events[1].in = calls[i].expr

\* A run of an expression with a leading and a trailing blank.
C6_Witness ==
  \E i \in CallIds :
    /\ calls[i].expr = <<" ", "2", " ">>
    /\ calls[i].outcome.kind = "returned"

\* The standard value of an arithmetic text, by the school rule and without
\* the delegate: split at the last binary + or -, else at the last * or /,
\* else take off a sign, else read the literal.  A fraction n/d, not reduced;
\* def is FALSE where a division by zero leaves no value.
RECURSIVE NoSpaces(_)
NoSpaces(s) ==
  IF s = <<>> THEN <<>>
  ELSE IF Head(s) = " " THEN NoSpaces(Tail(s))
  ELSE <<Head(s)>> \o NoSpaces(Tail(s))

BinaryAt(s, ops) == {i \in 2..Len(s) : s[i] \in ops /\ IsDigit(s[i - 1])}

Last(is) == CHOOSE i \in is : \A j \in is : j <= i

NoValue == [def |-> FALSE, n |-> 0, d |-> 1]

Combine(op, a, b) ==
  IF ~a.def \/ ~b.def THEN NoValue
  ELSE IF op = "+" THEN [def |-> TRUE, n |-> a.n * b.d + b.n * a.d, d |-> a.d * b.d]
  ELSE IF op = "-" THEN [def |-> TRUE, n |-> a.n * b.d - b.n * a.d, d |-> a.d * b.d]
  ELSE IF op = "*" THEN [def |-> TRUE, n |-> a.n * b.n, d |-> a.d * b.d]
  ELSE IF b.n = 0 THEN NoValue
  ELSE [def |-> TRUE, n |-> a.n * b.d, d |-> a.d * b.n]

RECURSIVE StdValue(_)
SplitAt(s, i) ==
  Combine(s[i], StdValue(SubSeq(s, 1, i - 1)), StdValue(SubSeq(s, i + 1, Len(s))))

StdValue(s) ==
  IF BinaryAt(s, {"+", "-"}) # {} THEN SplitAt(s, Last(BinaryAt(s, {"+", "-"})))
  ELSE IF BinaryAt(s, {"*", "/"}) # {} THEN SplitAt(s, Last(BinaryAt(s, {"*", "/"})))
  ELSE IF s[1] = "-" THEN Combine("-", [def |-> TRUE, n |-> 0, d |-> 1], StdValue(Tail(s)))
  ELSE IF s[1] = "+" THEN StdValue(Tail(s))
  ELSE [def |-> TRUE, n |-> NatVal(s), d |-> 1]

AllDigits(s) == \A i \in 1..Len(s) : IsDigit(s[i])

DotAt(s) == {i \in 1..Len(s) : s[i] = "."}

\* A decimal numeral read in thousandths (further digits cut off).
Thousandths(ip, fp) ==
  [ok |-> ip # <<>> /\ AllDigits(ip) /\ AllDigits(fp),
   m |-> IF ip # <<>> /\ AllDigits(ip) /\ AllDigits(fp)
         THEN NatVal(ip) * 1000 + NatVal(SubSeq(fp \o <<"0", "0", "0">>, 1, 3))
         ELSE 0]

Unsigned(s) ==
  IF DotAt(s) = {} THEN Thousandths(s, <<>>)
  ELSE Thousandths(SubSeq(s, 1, Last(DotAt(s)) - 1),
                   SubSeq(s, Last(DotAt(s)) + 1, Len(s)))

Negated(r) == [r EXCEPT !.m = -r.m]

Decimal(s) ==
  IF s # <<>> /\ Head(s) = "-" THEN Negated(Unsigned(Tail(s))) ELSE Unsigned(s)

\* The numeral t is the fraction v to within a thousandth.
Encodes(t, v) ==
  /\ Decimal(t).ok
  /\ Abs(v.n * 1000 - Decimal(t).m * v.d) <= Abs(v.d)

\* C7: for a text the delegate accepts that is made of literals and + - * /
\* and has a value, run returns a result string that is a decimal numeral of
\* the expression's standard value (* and / before + and -).
C7_ResultEncodesArithmeticValue ==
  \A i \in CallIds :
    (sympify(calls[i].expr).ok /\ StdValue(NoSpaces(calls[i].expr)).def) =>
      /\ calls[i].outcome.kind = "returned"
      /\ Encodes(calls[i].outcome.result, StdValue(NoSpaces(calls[i].expr)))

\* 2+2*2 is 6, 2/2/2 is a half, -2--2 is 0.
C7_Witness ==
  \E i \in CallIds :
    \/ /\ calls[i].expr = <<"2", "+", "2", "*", "2">>
       /\ calls[i].outcome.result
            = <<"6", ".", "0", "0", "0", "0", "0", "0", "0", "0", "0", "0",
                "0", "0", "0", "0">>
    \/ /\ calls[i].expr = <<"2", "/", "2", "/", "2">>
       /\ calls[i].outcome.result
            = <<"0", ".", "5", "0", "0", "0", "0", "0", "0", "0", "0", "0",
                "0", "0", "0", "0", "0">>

\* C8: a successful run is one parse of the expression, then one evalf of
\* the parsed form, then one str of the evaluated value, then the output
\* object built from that string; an output object is built in no other run.
C8_ParseThenEvalfThenStr ==
  \A i \in CallIds :
    /\ calls[i].outcome.kind = "returned" =>
         /\ EventOps(calls[i]) = <<"sympify", "evalf", "str", "output">>
         /\ calls[i].events[1].in = calls[i].expr
         /\ calls[i].events[2].in = calls[i].events[1].out
         /\ calls[i].events[2].out = evalf(calls[i].events[1].out)
         /\ calls[i].events[3].in = calls[i].events[2].out
         /\ calls[i].events[3].out = SymStr(calls[i].events[3].in)
         /\ calls[i].outcome.result = calls[i].events[3].out
    /\ HasEvent(calls[i], "output") => calls[i].outcome.kind = "returned"

\* 2/20 parses to the rational 1/10 and is returned as the Float's string.
C8_Witness ==
  \E i \in CallIds :
    /\ calls[i].expr = <<"2", "/", "2", "0">>
    /\ calls[i].events[1].out = Rat(1, 10)
    /\ calls[i].outcome.result
         = <<"0", ".", "1", "0", "0", "0", "0", "0", "0", "0", "0", "0", "0",
             "0", "0", "0", "0">>

\* ------------------------------------------------- documentation generator

\* Directory entries of atomic_tools and names of definitions, as text.
CalcName == <<"c", "a", "l", "c">>

IndexName == <<"i", "n", "d", "e", "x">>

HiddenName == <<".", "g", "i", "t">>

EntryNames == {CalcName, IndexName, HiddenName}

RstSuffix == <<".", "r", "s", "t">>

IndexRst == IndexName \o RstSuffix

FileNames == {IndexRst} \cup {n \o RstSuffix : n \in EntryNames}

NoFile == [exists |-> FALSE, content |-> <<>>, written |-> 0]

NoEntry == [kind |-> "none", main |-> FALSE, readme |-> FALSE, defs |-> <<>>]

\* What one f.write call puts into a file.
Title(name) == [k |-> "title", text |-> name, n |-> Len(name)]

Toctree == [k |-> "toctree", text |-> <<>>, n |-> 2]

TocEntry(name) == [k |-> "entry", text |-> name, n |-> 0]

Heading(name) == [k |-> "heading", text |-> name, n |-> Len(name)]

CodeBlock(sig) == [k |-> "code", text |-> sig, n |-> 0]

DocText(doc) == [k |-> "doc", text |-> doc, n |-> 0]

Include(name) == [k |-> "include", text |-> name, n |-> 0]

ReadmeName == <<"R", "E", "A", "D", "M", "E">>

IndexHeader == <<Title(<<"T", "o", "o", "l", "s">>), Toctree>>

\* A dict that keeps insertion order: assigning to a key it holds replaces
\* the value in place, a new key goes to the end.
HasKey(d, key) == \E i \in 1..Len(d) : d[i].key = key

DictSet(d, key, val) ==
  IF HasKey(d, key)
  THEN [i \in 1..Len(d) |-> IF d[i].key = key THEN [key |-> key, val |-> val]
                            ELSE d[i]]
  ELSE Append(d, [key |-> key, val |-> val])

KeyErrorText == <<"KeyError">>

DictGet(d, key) ==
  IF HasKey(d, key) THEN d[CHOOSE i \in 1..Len(d) : d[i].key = key].val
  ELSE KeyErrorText

\* ', '.join(names)
RECURSIVE Join(_)
Join(names) ==
  IF names = <<>> THEN <<>>
  ELSE IF Len(names) = 1 THEN Head(names)
  ELSE Head(names) \o <<", ">> \o Join(Tail(names))

\* ast.get_docstring(node): None without a docstring, else the docstring
\* cleaned (for one line: its leading blanks taken off).
GetDocstring(node) ==
  IF node.doc.has THEN [has |-> TRUE, text |-> LStrip(node.doc.text)]
  ELSE node.doc

\* Lines 21-26: the signature of a FunctionDef or a ClassDef.
Signature(node) ==
  IF node.kind = "def"
  THEN <<"def ">> \o node.name \o <<"(">> \o Join(node.params) \o <<"):">>
  ELSE <<"class ">> \o node.name \o <<"(">> \o Join(node.params) \o <<"):">>

\* Lines 16-18: a docstring that is neither None nor empty is kept, stripped.
WithDocstring(docstrings, node, doc) ==
  IF doc.has /\ doc.text # <<>>
  THEN DictSet(docstrings, node.name, Strip(doc.text))
  ELSE docstrings

\* extract_docstring_and_signature over the definitions ast.walk yields.
RECURSIVE ExtractFrom(_, _, _)
ExtractFrom(nodes, docstrings, signatures) ==
  IF nodes = <<>> THEN [docstrings |-> docstrings, signatures |-> signatures]
  ELSE ExtractFrom(Tail(nodes),
                   WithDocstring(docstrings, Head(nodes), GetDocstring(Head(nodes))),
                   DictSet(signatures, Head(nodes).name, Signature(Head(nodes))))

extract_docstring_and_signature(nodes) == ExtractFrom(nodes, <<>>, <<>>)

\* Lines 61-66: one section per item of docstrings.
RECURSIVE Sections(_, _)
Sections(items, signatures) ==
  IF items = <<>> THEN <<>>
  ELSE <<Heading(Head(items).key),
         CodeBlock(DictGet(signatures, Head(items).key)),
         DocText(Head(items).val)>>
       \o Sections(Tail(items), signatures)

MainSections(ex) == Sections(ex.docstrings, ex.signatures)

\* Lines 51-74: the page of one tool directory.
ToolPage(name, entry) ==
  <<Title(name)>>
  \o (IF entry.main THEN MainSections(extract_docstring_and_signature(entry.defs))
      ELSE <<>>)
  \o (IF entry.readme THEN <<Heading(ReadmeName), Include(name)>> ELSE <<>>)

\* glob.glob(os.path.join(tools_dir, "*")): the entries in the directory's
\* listing order, those whose name starts with a dot left out.
RECURSIVE Glob(_, _)
Glob(entries, order) ==
  IF order = <<>> THEN <<>>
  ELSE IF entries[Head(order)].kind = "none" \/ Head(Head(order)) = "."
       THEN Glob(entries, Tail(order))
  ELSE <<Head(order)>> \o Glob(entries, Tail(order))

\* open(path, "w") then the writes; open(path, "a") then one write.
Written(fs, path, content, nth) ==
  [fs EXCEPT ![path] = [exists |-> TRUE, content |-> content, written |-> nth]]

Appended(fs, path, chunk, nth) ==
  [fs EXCEPT ![path] = [exists |-> TRUE, content |-> Append(@.content, chunk),
                        written |-> nth]]

\* Lines 46-78: the loop over the globbed paths.
RECURSIVE ToolLoop(_, _, _, _)
ToolLoop(entries, paths, fs, nth) ==
  IF paths = <<>> THEN fs
  ELSE IF entries[Head(paths)].kind # "dir"
       THEN ToolLoop(entries, Tail(paths), fs, nth)
  ELSE ToolLoop(entries, Tail(paths),
                Appended(Written(fs, Head(paths) \o RstSuffix,
                                 ToolPage(Head(paths), entries[Head(paths)]),
                                 nth),
                         IndexRst, TocEntry(Head(paths)), nth),
                nth)

\* generate_rst_files(): the files under docs/source/tools after a run, the
\* nth.
generate_rst_files(t, fs, nth) ==
  ToolLoop(t.entries, Glob(t.entries, t.order),
           Written(fs, IndexRst, IndexHeader, nth), nth)

GenerateRstFiles ==
  /\ runs < MaxRuns
  /\ files' = generate_rst_files(tree, files, runs + 1)
  /\ runs' = runs + 1
  /\ UNCHANGED tree
  /\ UNCHANGED calcVars

\* The definitions of a main file, in ast.walk's order.
NoDoc == [has |-> FALSE, text |-> <<>>]

DocA == [has |-> TRUE, text |-> <<"A">>]

DocB == [has |-> TRUE, text |-> <<" ", "B", " ">>]

DefNames == {<<"r", "u", "n">>, <<"f">>}

DefNodes ==
  [kind : {"def", "class"}, name : DefNames, doc : {NoDoc, DocA, DocB},
   params : {<<>>, <<<<"x">>>>}]

RECURSIVE SeqsUpTo(_, _)
SeqsUpTo(S, n) ==
  IF n = 0 THEN {<<>>}
  ELSE SeqsUpTo(S, n - 1)
       \cup {Append(q, x) : q \in {p \in SeqsUpTo(S, n - 1) : Len(p) = n - 1},
                            x \in S}

\* The definitions of calculator_tool.py that carry a docstring.
SampleDefs ==
  <<[kind |-> "class", name |-> <<"f">>, doc |-> DocA,
     params |-> <<<<"x">>>>],
    [kind |-> "def", name |-> <<"r", "u", "n">>, doc |-> DocB,
     params |-> <<<<"x">>>>]>>

Orders == {<<a, b, c>> : a \in EntryNames, b \in EntryNames, c \in EntryNames}

EntryKinds ==
  {NoEntry}
  \cup {[kind |-> "file", main |-> FALSE, readme |-> FALSE, defs |-> <<>>]}
  \cup {[kind |-> "dir", main |-> m, readme |-> r,
         defs |-> IF m THEN SampleDefs ELSE <<>>] : m, r \in BOOLEAN}

NoFiles == [f \in FileNames |-> NoFile]

IdleCalc ==
  /\ requests = [r \in ReqIds |-> NoRequest]
  /\ tools = [t \in ToolIds |-> NoTool]
  /\ configs = [c \in CfgIds |-> NoConfig]
  /\ calls = <<>>

\* Any directory layout, each main file holding SampleDefs.
InitTree ==
  /\ tree \in [entries : [EntryNames -> EntryKinds],
               order : {o \in Orders : Cardinality({o[1], o[2], o[3]}) = 3}]
  /\ files = NoFiles
  /\ runs = 0

\* One tool directory whose main file holds any definitions.
InitDefs ==
  /\ \E ds \in SeqsUpTo(DefNodes, MaxDefs) :
       tree = [entries |-> [n \in EntryNames |->
                              IF n = CalcName
                              THEN [kind |-> "dir", main |-> TRUE,
                                    readme |-> FALSE, defs |-> ds]
                              ELSE NoEntry],
               order |-> <<CalcName, IndexName, HiddenName>>]
  /\ files = NoFiles
  /\ runs = 0

InitDocs == IdleCalc /\ (InitTree \/ InitDefs)

NextDocs == GenerateRstFiles

SpecDocs == InitDocs /\ [][NextDocs]_vars

\* ------------------------------------------ claims: documentation generator

Dirs == {n \in EntryNames : tree.entries[n].kind = "dir"}

PageOf(n) == files[n \o RstSuffix].content

\* The definitions of a main file that have a docstring.
Documented(defs) ==
  {i \in 1..Len(defs) :
     GetDocstring(defs[i]).has /\ Strip(GetDocstring(defs[i]).text) # <<>>}

\* The sections of a page: a heading, a code block, a docstring.
SectionsOf(page) ==
  {j \in 1..(Len(page) - 2) :
     page[j].k = "heading" /\ page[j + 1].k = "code" /\ page[j + 2].k = "doc"}

IsSectionOf(page, j, node) ==
  /\ page[j].text = node.name
  /\ page[j + 1].text = Signature(node)
  /\ page[j + 2].text = Strip(GetDocstring(node).text)

\* C9: in a tool's page every definition of the main file that has a
\* docstring has a section showing its name, its signature and its docstring,
\* the signature and the docstring of every section are those of one
\* definition, and no signature lookup fails.
C9_OneSectionPerDocumentedDefinition ==
  runs >= 1 =>
    \A n \in Dirs :
      (files[n \o RstSuffix].exists /\ tree.entries[n].main) =>
        /\ \A i \in Documented(tree.entries[n].defs) :
             \E j \in SectionsOf(PageOf(n)) :
               IsSectionOf(PageOf(n), j, tree.entries[n].defs[i])
        /\ \A j \in SectionsOf(PageOf(n)) :
             /\ PageOf(n)[j + 1].text # KeyErrorText
             /\ \E i \in Documented(tree.entries[n].defs) :
                  IsSectionOf(PageOf(n), j, tree.entries[n].defs[i])

IndexContent == files[IndexRst].content

\* C10: after a run index.rst is the fixed header and then exactly one
\* toctree entry per subdirectory of atomic_tools, each naming a page
\* written in that run; a further run on the same tree leaves every file's
\* content as it is.
C10_IndexListsEverySubdirectoryOnce ==
  runs >= 1 =>
    /\ files[IndexRst].exists
    /\ Len(IndexContent) = Len(IndexHeader) + Cardinality(Dirs)
    /\ SubSeq(IndexContent, 1, Len(IndexHeader)) = IndexHeader
    /\ \A n \in Dirs :
         \E i \in (Len(IndexHeader) + 1)..Len(IndexContent) :
           IndexContent[i] = TocEntry(n)
    /\ \A i \in (Len(IndexHeader) + 1)..Len(IndexContent) :
         /\ IndexContent[i].k = "entry"
         /\ IndexContent[i].text \in Dirs
         /\ files[IndexContent[i].text \o RstSuffix].exists
         /\ files[IndexContent[i].text \o RstSuffix].written = runs
    /\ \A f \in FileNames :
         /\ generate_rst_files(tree, files, runs + 1)[f].exists = files[f].exists
         /\ generate_rst_files(tree, files, runs + 1)[f].content
              = files[f].content

====
